---------------------------- MODULE Spec2Model ----------------------------
(***************************************************************************)
(* A model of assets/js/blocking.js: the startup orchestrator, the seven   *)
(* demonstration routines it invokes, and the two repeating timers they    *)
(* leave behind, on a single-threaded, run-to-completion event loop.       *)
(*                                                                         *)
(* A top-level call (the evaluation of the script, or the DOMContentLoaded *)
(* handler) occupies the thread from its first step to its last; timer     *)
(* callbacks run only while the thread is idle.                            *)
(*                                                                         *)
(* Two specifications share the definitions below:                         *)
(*   Spec      the script from line 225 on, the handler and the timers;    *)
(*             heavyCalculations is one step of it (it changes nothing     *)
(*             that outlives the call but the console);                    *)
(*   SpecHeavy the body of heavyCalculations, one loop iteration a step.   *)
(* FairSpec is Spec with the fairness of the engine and of the timers.     *)
(***************************************************************************)
EXTENDS Integers, Sequences, FiniteSets, TLC

(* Bounds of the model. *)
MaxAnimTicks == 3        \* ticks of the 16 ms timer that are followed
MaxLeakTicks == 3        \* ticks of the 1000 ms timer that are followed
ProbeBelow == 3          \* isPrime is also applied to 2 - ProbeBelow .. 1

(* Constants of the program. *)
DomIterations == 100     \* line 27
AnimPeriod == 16         \* line 63
LeakPeriod == 1000       \* line 89
BadRegexRuns == 100      \* line 103
EmailRuns == 1000        \* line 112
PrimeLimit == 10000      \* line 190
FibLimit == 35           \* line 205

(* The calls of the orchestrator, lines 228-234 and 238-244. *)
Routines ==
    << "inefficientDOMManipulation", "badAnimation", "setupMemoryLeaks",
       "inefficientRegex", "synchronousRequests",
       "inefficientDataProcessing", "heavyCalculations" >>

NumRoutines == Len(Routines)

(* The places where a call to the host raises an exception that no try     *)
(* block encloses: document.body is null at line 37, setInterval fails at  *)
(* line 51 or 70, the allocation of line 145 fails.                        *)
FaultSites == {1, 2, 3, 6}

VARIABLES
    readyState,          \* document.readyState
    dclFired,            \* DOMContentLoaded has been dispatched
    dclListeners,        \* listeners registered for DOMContentLoaded
    hostFault,           \* 0, or the routine whose host call raises
    phase,               \* "script", "handler" or "idle": what holds the thread
    pc,                  \* the position in the running top-level call
    rt,                  \* the orchestrator's next call, 1..7; 8 when all returned
    uncaught,            \* 0, or the routine that raised an uncaught exception
    invoked,             \* the routines called so far, in order
    log,                 \* console.log lines of the orchestrator and the routines
    dom_i,               \* line 27: i
    attached,            \* the divs of the routine attached to document.body
    appended,            \* appendChild calls, line 37
    layoutReads,         \* offsetHeight reads, line 40
    removed,             \* removeChild calls, line 43
    rx_i,                \* line 103: i
    em_i,                \* line 112: i
    rxErrors,            \* errors raised by badRegex.test
    emailTests,          \* emailRegex.test evaluations
    issued,              \* the requests sent, in order
    outcomes,            \* the outcome of each request sent
    timers,              \* the intervals registered by setInterval
    animationCounter,    \* line 49
    memoryLeaksDefined,  \* window.memoryLeaks is not undefined
    memoryLeaks,         \* window.memoryLeaks
    docListeners,        \* listeners added to document by the leak timer
    leakTicks,           \* ticks of the leak timer so far
    hc_pc,               \* the position in heavyCalculations' body
    hc_i,                \* line 190: i
    primes,              \* line 189
    hc_j,                \* line 205: i
    fibResults           \* line 204

ctl == << phase, pc, rt, uncaught >>
host == << readyState, dclFired, dclListeners, hostFault >>
domv == << dom_i, attached, appended, layoutReads, removed >>
rxv == << rx_i, em_i, rxErrors, emailTests >>
net == << issued, outcomes >>
tmv == << timers, animationCounter, memoryLeaksDefined, memoryLeaks,
          docListeners, leakTicks >>
hcv == << hc_pc, hc_i, primes, hc_j, fibResults >>
obs == << invoked, log >>

vars == << ctl, host, domv, rxv, net, tmv, hcv, obs >>

AnimTimer == [cb |-> "animation", period |-> AnimPeriod]
LeakTimer == [cb |-> "leak", period |-> LeakPeriod]

(* The thread is held by a top-level call of the program. *)
Running == phase \in {"script", "handler"}

---------------------------------------------------------------------------
(* Control flow of the orchestrator. *)

(* Routine k returns to the orchestrator: the next call, or the end of     *)
(* the block (the script goes on at line 247, the handler ends).           *)
Return(k) ==
    /\ rt' = k + 1
    /\ uncaught' = uncaught
    /\ pc' = IF k < NumRoutines THEN "call"
             ELSE IF phase = "script" THEN "tail" ELSE "none"
    /\ phase' = IF k = NumRoutines /\ phase = "handler" THEN "idle" ELSE phase

(* A bug: the exception of routine rt is swallowed between the calls. *)
ThrowContinues ==
    /\ rt' = rt + 1
    /\ uncaught' = rt
    /\ pc' = IF rt < NumRoutines THEN "call"
             ELSE IF phase = "script" THEN "tail" ELSE "none"
    /\ phase' = IF rt = NumRoutines /\ phase = "handler" THEN "idle" ELSE phase

(* An exception leaves routine rt. No try block encloses the calls of      *)
(* lines 228-234 and 238-244, so it ends the top-level call.               *)
Throw ==
    /\ rt' = rt
    /\ uncaught' = rt
    /\ pc' = "none"
    /\ phase' = "idle"

(* A bug: the listener is registered and the routines run at once too. *)
RegisterListenerAndRun ==
    /\ phase = "script" /\ pc = "dispatch"
    /\ readyState = "loading"
    /\ dclListeners' = dclListeners + 1
    /\ pc' = "call"
    /\ UNCHANGED << phase, rt, uncaught, readyState, dclFired, hostFault >>
    /\ UNCHANGED << domv, rxv, net, tmv, hcv, obs >>

(* Lines 225-226: the document is loading, the routines wait. *)
RegisterListener ==
    /\ phase = "script" /\ pc = "dispatch"
    /\ readyState = "loading"
    /\ dclListeners' = dclListeners + 1
    /\ pc' = "tail"
    /\ UNCHANGED << phase, rt, uncaught, readyState, dclFired, hostFault >>
    /\ UNCHANGED << domv, rxv, net, tmv, hcv, obs >>

(* Lines 236-237: the document is loaded, the routines run now. *)
RunImmediately ==
    /\ phase = "script" /\ pc = "dispatch"
    /\ readyState # "loading"
    /\ log' = Append(log, "DOM already loaded, starting all bad practices")
    /\ pc' = "call"
    /\ UNCHANGED << phase, rt, uncaught, invoked >>
    /\ UNCHANGED << host, domv, rxv, net, tmv, hcv >>

(* Lines 247-256: the rest of the script. *)
ScriptTail ==
    /\ phase = "script" /\ pc = "tail"
    /\ log' = log \o << "Blocking script execution continues...",
                        "Blocking script finished" >>
    /\ phase' = "idle"
    /\ pc' = "none"
    /\ UNCHANGED << rt, uncaught, invoked >>
    /\ UNCHANGED << host, domv, rxv, net, tmv, hcv >>

(* The host dispatches DOMContentLoaded, once, when no call holds the      *)
(* thread; lines 226-227 when the listener is registered.                  *)
DOMContentLoaded ==
    /\ phase = "idle"
    /\ ~dclFired
    /\ dclFired' = TRUE
    /\ readyState' = "interactive"
    /\ IF dclListeners > 0
       THEN /\ phase' = "handler"
            /\ pc' = "call"
            /\ log' = Append(log, "DOM loaded, starting all bad practices")
       ELSE UNCHANGED << phase, pc, log >>
    /\ UNCHANGED << rt, uncaught, dclListeners, hostFault, invoked >>
    /\ UNCHANGED << domv, rxv, net, tmv, hcv >>

---------------------------------------------------------------------------
(* inefficientDOMManipulation, lines 23-46. *)

(* Line 238 (228): the call, and line 24. *)
inefficientDOMManipulation ==
    /\ Running /\ pc = "call" /\ rt = 1
    /\ invoked' = Append(invoked, Routines[1])
    /\ log' = Append(log, "Starting inefficient DOM manipulation")
    /\ dom_i' = 0
    /\ pc' = "dom_loop"
    /\ UNCHANGED << phase, rt, uncaught, attached, appended, layoutReads, removed >>
    /\ UNCHANGED << host, rxv, net, tmv, hcv >>

(* Lines 27-37: the loop test, a new div, document.body.appendChild(div). *)
DomAppend ==
    /\ Running /\ pc = "dom_loop"
    /\ dom_i < DomIterations
    /\ hostFault # 1
    /\ attached' = attached \cup {dom_i}
    /\ appended' = appended + 1
    /\ pc' = "dom_read"
    /\ UNCHANGED << phase, rt, uncaught, dom_i, layoutReads, removed >>
    /\ UNCHANGED << host, rxv, net, tmv, hcv, obs >>

(* Line 37 with document.body null: a TypeError, not caught. *)
DomAppendThrows ==
    /\ Running /\ pc = "dom_loop"
    /\ dom_i < DomIterations
    /\ hostFault = 1
    /\ Throw
    /\ UNCHANGED << host, domv, rxv, net, tmv, hcv, obs >>

(* Line 40: div.offsetHeight forces a layout. *)
DomRead ==
    /\ Running /\ pc = "dom_read"
    /\ layoutReads' = layoutReads + 1
    /\ pc' = "dom_remove"
    /\ UNCHANGED << phase, rt, uncaught, dom_i, attached, appended, removed >>
    /\ UNCHANGED << host, rxv, net, tmv, hcv, obs >>

(* A bug: the div is counted and left attached. *)
DomRemoveLeaves ==
    /\ Running /\ pc = "dom_remove"
    /\ removed' = removed + 1
    /\ dom_i' = dom_i + 1
    /\ pc' = "dom_loop"
    /\ UNCHANGED << phase, rt, uncaught, attached, appended, layoutReads >>
    /\ UNCHANGED << host, rxv, net, tmv, hcv, obs >>

(* Line 43: document.body.removeChild(div), and i++ of line 27. *)
DomRemove ==
    /\ Running /\ pc = "dom_remove"
    /\ attached' = attached \ {dom_i}
    /\ removed' = removed + 1
    /\ dom_i' = dom_i + 1
    /\ pc' = "dom_loop"
    /\ UNCHANGED << phase, rt, uncaught, appended, layoutReads >>
    /\ UNCHANGED << host, rxv, net, tmv, hcv, obs >>

(* Lines 27, 45-46: the loop ends, the routine returns. *)
DomFinished ==
    /\ Running /\ pc = "dom_loop"
    /\ dom_i >= DomIterations
    /\ log' = Append(log, "Finished inefficient DOM manipulation")
    /\ Return(1)
    /\ UNCHANGED << invoked, host, domv, rxv, net, tmv, hcv >>

---------------------------------------------------------------------------
(* badAnimation, lines 49-64, and setupMemoryLeaks, lines 67-90. *)

(* Line 239 (229) and line 51: the 16 ms interval is registered. *)
badAnimation ==
    /\ Running /\ pc = "call" /\ rt = 2
    /\ hostFault # 2
    /\ invoked' = Append(invoked, Routines[2])
    /\ timers' = Append(timers, AnimTimer)
    /\ Return(2)
    /\ UNCHANGED << animationCounter, memoryLeaksDefined, memoryLeaks,
                    docListeners, leakTicks, log >>
    /\ UNCHANGED << host, domv, rxv, net, hcv >>

(* Line 51 raises. *)
badAnimationThrows ==
    /\ Running /\ pc = "call" /\ rt = 2
    /\ hostFault = 2
    /\ invoked' = Append(invoked, Routines[2])
    /\ Throw
    /\ UNCHANGED << host, domv, rxv, net, tmv, hcv, log >>

(* Line 240 (230) and lines 68-70: the 1000 ms interval is registered. *)
setupMemoryLeaks ==
    /\ Running /\ pc = "call" /\ rt = 3
    /\ hostFault # 3
    /\ invoked' = Append(invoked, Routines[3])
    /\ log' = Append(log, "Setting up memory leaks")
    /\ timers' = Append(timers, LeakTimer)
    /\ Return(3)
    /\ UNCHANGED << animationCounter, memoryLeaksDefined, memoryLeaks,
                    docListeners, leakTicks >>
    /\ UNCHANGED << host, domv, rxv, net, hcv >>

(* Line 70 raises. *)
setupMemoryLeaksThrows ==
    /\ Running /\ pc = "call" /\ rt = 3
    /\ hostFault = 3
    /\ invoked' = Append(invoked, Routines[3])
    /\ log' = Append(log, "Setting up memory leaks")
    /\ Throw
    /\ UNCHANGED << host, domv, rxv, net, tmv, hcv >>

(* A bug: the callback runs though a call holds the thread. *)
AnimTickPreempts ==
    /\ \E t \in 1..Len(timers) : timers[t] = AnimTimer
    /\ animationCounter < MaxAnimTicks
    /\ animationCounter' = animationCounter + 1
    /\ UNCHANGED << timers, memoryLeaksDefined, memoryLeaks, docListeners,
                    leakTicks >>
    /\ UNCHANGED << ctl, host, domv, rxv, net, hcv, obs >>

(* Lines 51-63: a tick of the 16 ms interval. The style writes and the     *)
(* layout reads of lines 53-62 change the document only.                   *)
AnimTick ==
    /\ phase = "idle"
    /\ \E t \in 1..Len(timers) : timers[t] = AnimTimer
    /\ animationCounter < MaxAnimTicks
    /\ animationCounter' = animationCounter + 1
    /\ UNCHANGED << timers, memoryLeaksDefined, memoryLeaks, docListeners,
                    leakTicks >>
    /\ UNCHANGED << ctl, host, domv, rxv, net, hcv, obs >>

(* A bug: line 87 without "window.memoryLeaks ||". *)
LeakTickResets ==
    /\ phase = "idle"
    /\ \E t \in 1..Len(timers) : timers[t] = LeakTimer
    /\ leakTicks < MaxLeakTicks
    /\ docListeners' = docListeners \o << "click", "scroll", "resize" >>
    /\ memoryLeaksDefined' = TRUE
    /\ memoryLeaks' = << leakTicks + 1 >>
    /\ leakTicks' = leakTicks + 1
    /\ UNCHANGED << timers, animationCounter >>
    /\ UNCHANGED << ctl, host, domv, rxv, net, hcv, obs >>

(* A bug: the interval is cleared by its first tick. *)
LeakTickOnce ==
    /\ phase = "idle"
    /\ \E t \in 1..Len(timers) : timers[t] = LeakTimer
    /\ leakTicks < MaxLeakTicks
    /\ docListeners' = docListeners \o << "click", "scroll", "resize" >>
    /\ memoryLeaksDefined' = TRUE
    /\ memoryLeaks' = Append(IF memoryLeaksDefined THEN memoryLeaks ELSE << >>,
                             leakTicks + 1)
    /\ leakTicks' = leakTicks + 1
    /\ timers' = SelectSeq(timers, LAMBDA t : t # LeakTimer)
    /\ UNCHANGED animationCounter
    /\ UNCHANGED << ctl, host, domv, rxv, net, hcv, obs >>

(* Lines 70-89: a tick of the 1000 ms interval: three listeners added to   *)
(* document, and a new closure pushed on window.memoryLeaks (created by    *)
(* the first tick). The closure is named by the tick that made it.         *)
LeakTick ==
    /\ phase = "idle"
    /\ \E t \in 1..Len(timers) : timers[t] = LeakTimer
    /\ leakTicks < MaxLeakTicks
    /\ docListeners' = docListeners \o << "click", "scroll", "resize" >>
    /\ memoryLeaksDefined' = TRUE
    /\ memoryLeaks' = Append(IF memoryLeaksDefined THEN memoryLeaks ELSE << >>,
                             leakTicks + 1)
    /\ leakTicks' = leakTicks + 1
    /\ UNCHANGED << timers, animationCounter >>
    /\ UNCHANGED << ctl, host, domv, rxv, net, hcv, obs >>

---------------------------------------------------------------------------
(* inefficientRegex, lines 93-115. *)

(* Line 241 (231): the call, and lines 94-100. *)
inefficientRegex ==
    /\ Running /\ pc = "call" /\ rt = 4
    /\ invoked' = Append(invoked, Routines[4])
    /\ log' = Append(log, "Running inefficient regex operations")
    /\ rx_i' = 0
    /\ pc' = "rx_bad"
    /\ UNCHANGED << phase, rt, uncaught, em_i, rxErrors, emailTests >>
    /\ UNCHANGED << host, domv, net, tmv, hcv >>

(* Lines 103-104: badRegex.test(testString) returns. *)
RxTestReturns ==
    /\ Running /\ pc = "rx_bad"
    /\ rx_i < BadRegexRuns
    /\ rx_i' = rx_i + 1
    /\ UNCHANGED << ctl, em_i, rxErrors, emailTests >>
    /\ UNCHANGED << host, domv, net, tmv, hcv, obs >>

(* Line 104: badRegex.test(testString) raises; control goes to line 106. *)
RxTestThrows ==
    /\ Running /\ pc = "rx_bad"
    /\ rx_i < BadRegexRuns
    /\ rxErrors' = rxErrors + 1
    /\ pc' = "rx_catch"
    /\ UNCHANGED << phase, rt, uncaught, rx_i, em_i, emailTests >>
    /\ UNCHANGED << host, domv, net, tmv, hcv, obs >>

(* A bug: the handler rethrows. *)
RxCatchRethrows ==
    /\ Running /\ pc = "rx_catch"
    /\ log' = Append(log, "Regex timeout/error:")
    /\ rx_i' = 0
    /\ Throw
    /\ UNCHANGED << em_i, rxErrors, emailTests, invoked >>
    /\ UNCHANGED << host, domv, net, tmv, hcv >>

(* Lines 106-108: the error is logged; the loop and its i are left. *)
RxCatch ==
    /\ Running /\ pc = "rx_catch"
    /\ log' = Append(log, "Regex timeout/error:")
    /\ rx_i' = 0
    /\ em_i' = 0
    /\ pc' = "rx_email"
    /\ UNCHANGED << phase, rt, uncaught, rxErrors, emailTests, invoked >>
    /\ UNCHANGED << host, domv, net, tmv, hcv >>

(* Lines 103, 105: the loop ends without an error. *)
RxBadDone ==
    /\ Running /\ pc = "rx_bad"
    /\ rx_i >= BadRegexRuns
    /\ rx_i' = 0
    /\ em_i' = 0
    /\ pc' = "rx_email"
    /\ UNCHANGED << phase, rt, uncaught, rxErrors, emailTests >>
    /\ UNCHANGED << host, domv, net, tmv, hcv, obs >>

(* Lines 112-113: emailRegex.test('test@example.com'). *)
RxEmailTest ==
    /\ Running /\ pc = "rx_email"
    /\ em_i < EmailRuns
    /\ emailTests' = emailTests + 1
    /\ em_i' = em_i + 1
    /\ UNCHANGED << ctl, rx_i, rxErrors >>
    /\ UNCHANGED << host, domv, net, tmv, hcv, obs >>

(* Lines 112, 115: the loop ends, the routine returns. *)
RxFinished ==
    /\ Running /\ pc = "rx_email"
    /\ em_i >= EmailRuns
    /\ em_i' = 0
    /\ Return(4)
    /\ UNCHANGED << rx_i, rxErrors, emailTests >>
    /\ UNCHANGED << host, domv, net, tmv, hcv, obs >>

---------------------------------------------------------------------------
(* synchronousRequests, lines 118-138. Request 1 is lines 121-128, request *)
(* 2 is lines 130-137. A synchronous send holds the thread until the       *)
(* response or the error.                                                  *)

CompletedLine(k) ==
    IF k = 1 THEN "Synchronous request completed:"
             ELSE "Second synchronous request completed:"

FailedLine(k) ==
    IF k = 1 THEN "Synchronous request failed:"
             ELSE "Second synchronous request failed:"

(* What follows request k. *)
AfterRequest(k) ==
    IF k = 1
    THEN pc' = "xhr_2" /\ UNCHANGED << phase, rt, uncaught >>
    ELSE Return(5)

(* Line 242 (232): the call, and line 119. *)
synchronousRequests ==
    /\ Running /\ pc = "call" /\ rt = 5
    /\ invoked' = Append(invoked, Routines[5])
    /\ log' = Append(log, "Making synchronous requests")
    /\ pc' = "xhr_1"
    /\ UNCHANGED << phase, rt, uncaught >>
    /\ UNCHANGED << host, domv, rxv, net, tmv, hcv >>

(* Lines 122-124 (131-133): open(..., false) and send(). *)
XhrSend(k) ==
    /\ Running /\ pc = IF k = 1 THEN "xhr_1" ELSE "xhr_2"
    /\ issued' = Append(issued, k)
    /\ pc' = IF k = 1 THEN "xhr_1_wait" ELSE "xhr_2_wait"
    /\ UNCHANGED << phase, rt, uncaught, outcomes >>
    /\ UNCHANGED << host, domv, rxv, tmv, hcv, obs >>

(* Lines 124-125 (133-134): send() returns, the status is logged. *)
XhrCompleted(k) ==
    /\ Running /\ pc = IF k = 1 THEN "xhr_1_wait" ELSE "xhr_2_wait"
    /\ outcomes' = Append(outcomes, "completed")
    /\ log' = Append(log, CompletedLine(k))
    /\ AfterRequest(k)
    /\ UNCHANGED << issued, invoked >>
    /\ UNCHANGED << host, domv, rxv, tmv, hcv >>

(* A bug: one try block around both requests. *)
XhrFailedSkipsRest(k) ==
    /\ Running /\ pc = IF k = 1 THEN "xhr_1_wait" ELSE "xhr_2_wait"
    /\ outcomes' = Append(outcomes, "failed")
    /\ log' = Append(log, FailedLine(k))
    /\ Return(5)
    /\ UNCHANGED << issued, invoked >>
    /\ UNCHANGED << host, domv, rxv, tmv, hcv >>

(* Lines 124, 126-128 (133, 135-137): send() raises, the error is logged. *)
XhrFailed(k) ==
    /\ Running /\ pc = IF k = 1 THEN "xhr_1_wait" ELSE "xhr_2_wait"
    /\ outcomes' = Append(outcomes, "failed")
    /\ log' = Append(log, FailedLine(k))
    /\ AfterRequest(k)
    /\ UNCHANGED << issued, invoked >>
    /\ UNCHANGED << host, domv, rxv, tmv, hcv >>

---------------------------------------------------------------------------
(* inefficientDataProcessing, lines 141-174, and heavyCalculations, lines  *)
(* 177-210, as steps of the orchestrator: synchronous computations on      *)
(* values local to the call.                                               *)

(* Line 243 (233) and lines 142-173. *)
inefficientDataProcessing ==
    /\ Running /\ pc = "call" /\ rt = 6
    /\ hostFault # 6
    /\ invoked' = Append(invoked, Routines[6])
    /\ log' = log \o << "Starting inefficient data processing",
                        "Processed items:", "Comparisons made:" >>
    /\ Return(6)
    /\ UNCHANGED << host, domv, rxv, net, tmv, hcv >>

(* Line 145 raises (the allocation fails). *)
inefficientDataProcessingThrows ==
    /\ Running /\ pc = "call" /\ rt = 6
    /\ hostFault = 6
    /\ invoked' = Append(invoked, Routines[6])
    /\ log' = Append(log, "Starting inefficient data processing")
    /\ Throw
    /\ UNCHANGED << host, domv, rxv, net, tmv, hcv >>

(* Line 244 (234) and lines 178-209. *)
heavyCalculations ==
    /\ Running /\ pc = "call" /\ rt = 7
    /\ invoked' = Append(invoked, Routines[7])
    /\ log' = log \o << "Starting heavy calculations on main thread",
                        "Found primes:", "Fibonacci results:" >>
    /\ Return(7)
    /\ UNCHANGED << host, domv, rxv, net, tmv, hcv >>

---------------------------------------------------------------------------
(* The body of heavyCalculations, lines 177-210. *)

(* A bug: the trial divisors stop before the square root is reached. *)
isPrimeShortOfRoot(n) ==
    IF n < 2 THEN FALSE
    ELSE \A i \in 2..(n - 1) : i * i < n => n % i # 0

(* Lines 181-187: trial division by 2 .. n-1; the loop returns false at    *)
(* the first divisor, and true when there is none.                         *)
isPrime(n) ==
    IF n < 2 THEN FALSE
    ELSE \A i \in 2..(n - 1) : n % i # 0

RECURSIVE fibonacciFromOne(_)
(* A bug: the base case returns 1 for every n <= 1. *)
fibonacciFromOne(n) ==
    IF n <= 1 THEN 1
    ELSE fibonacciFromOne(n - 1) + fibonacciFromOne(n - 2)

RECURSIVE fibonacci(_)
(* Lines 199-202: the double recursion, no memoization. *)
fibonacci(n) ==
    IF n <= 1 THEN n
    ELSE fibonacci(n - 1) + fibonacci(n - 2)

(* Lines 190-194: one iteration of the loop over [2, 10000). *)
HcPrimeLoop ==
    /\ hc_pc = "primes"
    /\ hc_i < PrimeLimit
    /\ primes' = IF isPrime(hc_i) THEN Append(primes, hc_i) ELSE primes
    /\ hc_i' = hc_i + 1
    /\ UNCHANGED << hc_pc, hc_j, fibResults >>
    /\ UNCHANGED << ctl, host, domv, rxv, net, tmv, obs >>

(* Lines 190, 196: the loop ends, the count is logged. *)
HcFoundPrimes ==
    /\ hc_pc = "primes"
    /\ hc_i >= PrimeLimit
    /\ log' = Append(log, "Found primes:")
    /\ hc_j' = 0
    /\ hc_pc' = "fib"
    /\ UNCHANGED << hc_i, primes, fibResults, invoked >>
    /\ UNCHANGED << ctl, host, domv, rxv, net, tmv >>

(* Lines 205-207: one iteration of the loop over [0, 35). *)
HcFibLoop ==
    /\ hc_pc = "fib"
    /\ hc_j < FibLimit
    /\ fibResults' = Append(fibResults, fibonacci(hc_j))
    /\ hc_j' = hc_j + 1
    /\ UNCHANGED << hc_pc, hc_i, primes >>
    /\ UNCHANGED << ctl, host, domv, rxv, net, tmv, obs >>

(* Lines 205, 209: the loop ends, the count is logged. *)
HcFibDone ==
    /\ hc_pc = "fib"
    /\ hc_j >= FibLimit
    /\ log' = Append(log, "Fibonacci results:")
    /\ hc_pc' = "return"
    /\ UNCHANGED << hc_i, primes, hc_j, fibResults, invoked >>
    /\ UNCHANGED << ctl, host, domv, rxv, net, tmv >>

(* Line 210: the routine returns; its locals are gone. *)
HcReturn ==
    /\ hc_pc = "return"
    /\ hc_pc' = "off"
    /\ hc_i' = 0 /\ primes' = << >> /\ hc_j' = 0 /\ fibResults' = << >>
    /\ Return(NumRoutines)
    /\ UNCHANGED << host, domv, rxv, net, tmv, obs >>

---------------------------------------------------------------------------
(* The specifications. *)

(* The state on reaching line 225: nothing is registered, no routine has   *)
(* run (the console lines of 12-15 and the data of 213-222 are not kept).  *)
(* The host gives the ready state, whether DOMContentLoaded is still to    *)
(* come, and whether one of its calls will raise.                          *)
Init ==
    /\ readyState \in {"loading", "interactive", "complete"}
    /\ dclFired \in BOOLEAN
    /\ readyState = "loading" => ~dclFired
    /\ readyState = "complete" => dclFired
    /\ dclListeners = 0
    /\ hostFault \in {0} \cup FaultSites
    /\ phase = "script" /\ pc = "dispatch" /\ rt = 1 /\ uncaught = 0
    /\ invoked = << >> /\ log = << >>
    /\ dom_i = 0 /\ attached = {} /\ appended = 0 /\ layoutReads = 0
    /\ removed = 0
    /\ rx_i = 0 /\ em_i = 0 /\ rxErrors = 0 /\ emailTests = 0
    /\ issued = << >> /\ outcomes = << >>
    /\ timers = << >> /\ animationCounter = 0
    /\ memoryLeaksDefined = FALSE /\ memoryLeaks = << >>
    /\ docListeners = << >> /\ leakTicks = 0
    /\ hc_pc = "off" /\ hc_i = 0 /\ primes = << >> /\ hc_j = 0
    /\ fibResults = << >>

(* A step of the engine in the running top-level call. *)
Run ==
    \/ RegisterListener
    \/ RunImmediately
    \/ ScriptTail
    \/ inefficientDOMManipulation
    \/ DomAppend
    \/ DomAppendThrows
    \/ DomRead
    \/ DomRemove
    \/ DomFinished
    \/ badAnimation
    \/ badAnimationThrows
    \/ setupMemoryLeaks
    \/ setupMemoryLeaksThrows
    \/ inefficientRegex
    \/ RxTestReturns
    \/ RxTestThrows
    \/ RxCatch
    \/ RxBadDone
    \/ RxEmailTest
    \/ RxFinished
    \/ synchronousRequests
    \/ \E k \in 1..2 : XhrSend(k)
    \/ \E k \in 1..2 : XhrCompleted(k)
    \/ \E k \in 1..2 : XhrFailed(k)
    \/ inefficientDataProcessing
    \/ inefficientDataProcessingThrows
    \/ heavyCalculations

Next ==
    \/ Run
    \/ DOMContentLoaded
    \/ AnimTick
    \/ LeakTick

Spec == Init /\ [][Next]_vars

(* The engine runs a call to its end, and an interval fires again and     *)
(* again while the thread is idle.                                         *)
FairSpec ==
    /\ Spec
    /\ WF_vars(Run)
    /\ WF_vars(AnimTick)
    /\ WF_vars(LeakTick)

(* heavyCalculations is entered from line 244: the document was loaded,    *)
(* no call of the host raised, no regex error, both requests completed.    *)
HeavyInit ==
    /\ readyState = "complete" /\ dclFired = TRUE /\ dclListeners = 0
    /\ hostFault = 0
    /\ phase = "script" /\ pc = "heavy" /\ rt = NumRoutines /\ uncaught = 0
    /\ invoked = Routines
    /\ log = << "DOM already loaded, starting all bad practices",
                "Starting inefficient DOM manipulation",
                "Finished inefficient DOM manipulation",
                "Setting up memory leaks",
                "Running inefficient regex operations",
                "Making synchronous requests",
                "Synchronous request completed:",
                "Second synchronous request completed:",
                "Starting inefficient data processing",
                "Processed items:", "Comparisons made:",
                "Starting heavy calculations on main thread" >>
    /\ dom_i = DomIterations /\ attached = {} /\ appended = DomIterations
    /\ layoutReads = DomIterations /\ removed = DomIterations
    /\ rx_i = 0 /\ em_i = 0 /\ rxErrors = 0 /\ emailTests = EmailRuns
    /\ issued = << 1, 2 >> /\ outcomes = << "completed", "completed" >>
    /\ timers = << AnimTimer, LeakTimer >> /\ animationCounter = 0
    /\ memoryLeaksDefined = FALSE /\ memoryLeaks = << >>
    /\ docListeners = << >> /\ leakTicks = 0
    /\ hc_pc = "primes" /\ hc_i = 2 /\ primes = << >> /\ hc_j = 0
    /\ fibResults = << >>

HeavyNext ==
    \/ HcPrimeLoop
    \/ HcFoundPrimes
    \/ HcFibLoop
    \/ HcFibDone
    \/ HcReturn

SpecHeavy == HeavyInit /\ [][HeavyNext]_vars

---------------------------------------------------------------------------
(* Sanity of the model, and helpers of the properties. *)

TypeOK ==
    /\ readyState \in {"loading", "interactive", "complete"}
    /\ dclFired \in BOOLEAN
    /\ dclListeners \in 0..1
    /\ hostFault \in {0} \cup FaultSites
    /\ phase \in {"script", "handler", "idle"}
    /\ rt \in 1..(NumRoutines + 1)
    /\ uncaught \in 0..NumRoutines
    /\ dom_i \in 0..DomIterations
    /\ rx_i \in 0..BadRegexRuns
    /\ em_i \in 0..EmailRuns
    /\ animationCounter \in 0..MaxAnimTicks
    /\ leakTicks \in 0..MaxLeakTicks
    /\ memoryLeaksDefined \in BOOLEAN
    /\ Len(issued) <= 2
    /\ phase = "idle" <=> pc = "none"

Count(seq, x) == Cardinality({i \in 1..Len(seq) : seq[i] = x})

IsPrefix(a, b) == Len(a) <= Len(b) /\ SubSeq(b, 1, Len(a)) = a

Elements(seq) == {seq[k] : k \in 1..Len(seq)}

Increasing(seq) == \A k \in 1..(Len(seq) - 1) : seq[k] < seq[k + 1]

(* The orchestrator took the already-loaded branch, lines 236-245. *)
TookImmediate == pc # "dispatch" /\ dclListeners = 0

(* The numbers below PrimeLimit that are a product of two factors >= 2,    *)
(* and the primes: the numbers from 2 on that are no such product.         *)
Composites ==
    UNION { {a * b : b \in a..((PrimeLimit - 1) \div a)} :
            a \in 2..(PrimeLimit - 1) }

PrimeNumbers == (2..(PrimeLimit - 1)) \ Composites

RECURSIVE FibFrom(_, _, _)
(* F(n) by iteration from the pair (F(0), F(1)) = (0, 1). *)
FibFrom(n, a, b) == IF n = 0 THEN a ELSE FibFrom(n - 1, b, a + b)

F(n) == FibFrom(n, 0, 1)

---------------------------------------------------------------------------
(* The properties. *)

(* C1, as stated: in the already-loaded branch every routine is invoked,   *)
(* once and in order, whether or not a routine before it raised: when the  *)
(* evaluation of the script has ended, all seven have been invoked.        *)
C1_AllInvokedDespiteFailure ==
    (TookImmediate /\ phase = "idle") => invoked = Routines

(* C1, amended: in the already-loaded branch the routines are invoked in   *)
(* the fixed order, each at most once; all seven exactly once when no      *)
(* routine raises an uncaught exception (an error caught inside            *)
(* inefficientRegex or synchronousRequests stops nothing); an uncaught     *)
(* exception of a routine ends the evaluation of the script, and none of   *)
(* the routines after it is invoked, then or later.                        *)
C1_InvokedUntilUncaught ==
    TookImmediate =>
        /\ IsPrefix(invoked, Routines)
        /\ (uncaught = 0 /\ pc \in {"tail", "none"}) => invoked = Routines
        /\ uncaught # 0 =>
              /\ invoked = SubSeq(Routines, 1, uncaught)
              /\ phase = "idle"

(* C1: setupMemoryLeaks raised at line 70; the timer of badAnimation has   *)
(* ticked since, and the four routines after it were never invoked.        *)
C1_Witness ==
    /\ TookImmediate
    /\ uncaught = 3
    /\ invoked = SubSeq(Routines, 1, 3)
    /\ animationCounter = MaxAnimTicks

(* C2: while the script is evaluated in a loading document no routine is   *)
(* invoked and one DOMContentLoaded listener is registered; nothing is     *)
(* invoked before the signal; when the handler has run to its end the      *)
(* seven routines have been invoked once each in the fixed order; exactly  *)
(* one branch is taken, and no routine is ever invoked twice.              *)
C2_DeferredOnce ==
    /\ (phase = "script" /\ readyState = "loading") => invoked = << >>
    /\ (phase = "script" /\ readyState = "loading" /\ pc # "dispatch")
          => dclListeners = 1
    /\ readyState # "loading" /\ phase = "script" => dclListeners = 0
    /\ dclListeners <= 1
    /\ (dclListeners = 1 /\ ~dclFired) => invoked = << >>
    /\ (dclListeners = 1 /\ dclFired /\ phase = "idle" /\ uncaught = 0)
          => invoked = Routines
    /\ Count(log, "DOM already loaded, starting all bad practices")
         + Count(log, "DOM loaded, starting all bad practices") <= 1
    /\ pc # "dispatch" =>
          (dclListeners = 1 <=>
             Count(log, "DOM already loaded, starting all bad practices") = 0)
    /\ IsPrefix(invoked, Routines)

(* C2: the handler has run and all seven routines were invoked by it. *)
C2_Witness ==
    /\ dclListeners = 1 /\ dclFired /\ phase = "idle"
    /\ invoked = Routines
    /\ Count(log, "DOM loaded, starting all bad practices") = 1

(* C3: after N ticks of the leak timer window.memoryLeaks holds N          *)
(* closures (it is unset before the first tick), and a step never removes  *)
(* an entry or replaces the collection: the old one is a prefix of the new.*)
C3_LeaksCountTicks ==
    /\ [](/\ Len(memoryLeaks) = leakTicks
          /\ memoryLeaksDefined <=> leakTicks > 0
          /\ Len(docListeners) = 3 * leakTicks)
    /\ [][/\ IsPrefix(memoryLeaks, memoryLeaks')
          /\ memoryLeaksDefined => memoryLeaksDefined']_vars

(* C3: the leak timer has ticked several times. *)
C3_Witness ==
    /\ leakTicks = MaxLeakTicks
    /\ Len(memoryLeaks) = MaxLeakTicks
    /\ memoryLeaks[1] = 1

(* C4: inefficientDOMManipulation appends, reads and removes one div per   *)
(* iteration, in that order; at most one of its divs is attached at any    *)
(* time; when it has returned, 100 divs were appended and removed and none *)
(* is attached.                                                            *)
C4_DomChurn ==
    /\ Cardinality(attached) <= 1
    /\ removed <= layoutReads /\ layoutReads <= appended
    /\ appended <= removed + 1
    /\ dom_i = removed
    /\ pc = "dom_loop" => attached = {} /\ appended = removed
    /\ pc = "dom_read" => attached = {dom_i} /\ appended = layoutReads + 1
    /\ pc = "dom_remove" => attached = {dom_i} /\ layoutReads = removed + 1
    /\ rt > 1 =>
          /\ appended = DomIterations
          /\ layoutReads = DomIterations
          /\ removed = DomIterations
          /\ attached = {}

(* C4: the routine has returned after its 100 iterations. *)
C4_Witness == rt > 1 /\ removed = DomIterations /\ attached = {}

(* C5: an error of the backtracking pattern, at whichever iteration, is    *)
(* caught and logged once; no exception leaves inefficientRegex; the       *)
(* routine returns after all 1000 evaluations of the email pattern.        *)
C5_RegexErrorContained ==
    /\ uncaught # 4
    /\ rxErrors <= 1
    /\ Count(log, "Regex timeout/error:")
          = (IF pc = "rx_catch" THEN rxErrors - 1 ELSE rxErrors)
    /\ pc \in {"rx_bad", "rx_catch", "rx_email"} => Running /\ rt = 4
    /\ rt > 4 => emailTests = EmailRuns

(* C5: the pattern raised, and the routine returned after 1000 email       *)
(* evaluations.                                                            *)
C5_Witness == rt > 4 /\ rxErrors = 1 /\ emailTests = EmailRuns

(* C6: the two requests are issued once each, the second after the first   *)
(* has completed or failed; each outcome is logged by one line of its own  *)
(* kind; no exception leaves synchronousRequests, which returns after      *)
(* both requests whatever their outcomes.                                  *)
C6_RequestsIndependent ==
    /\ uncaught # 5
    /\ IsPrefix(issued, << 1, 2 >>)
    /\ Len(outcomes) <= Len(issued) /\ Len(issued) <= Len(outcomes) + 1
    /\ \A k \in 1..2 :
          /\ Count(log, CompletedLine(k)) =
                (IF k <= Len(outcomes) /\ outcomes[k] = "completed" THEN 1 ELSE 0)
          /\ Count(log, FailedLine(k)) =
                (IF k <= Len(outcomes) /\ outcomes[k] = "failed" THEN 1 ELSE 0)
    /\ pc \in {"xhr_1", "xhr_1_wait", "xhr_2", "xhr_2_wait"} => Running /\ rt = 5
    /\ rt > 5 => issued = << 1, 2 >> /\ Len(outcomes) = 2

(* C6: the first request failed, the second was issued and completed. *)
C6_Witness == rt > 5 /\ outcomes = << "failed", "completed" >>

(* C7: isPrime(2) holds, isPrime(9) and isPrime(n) for n < 2 do not; the   *)
(* list primes holds, in increasing order, exactly the primes below the    *)
(* loop's i, and so the 1229 primes below 10000 when the loop has ended.   *)
C7_PrimesByTrialDivision ==
    /\ isPrime(2) /\ ~isPrime(9)
    /\ \A n \in (2 - ProbeBelow)..1 : ~isPrime(n)
    /\ hc_pc # "off" =>
          /\ Elements(primes) = {n \in PrimeNumbers : n < hc_i}
          /\ Increasing(primes)
    /\ hc_pc \in {"fib", "return"} =>
          /\ hc_i = PrimeLimit
          /\ Len(primes) = 1229

(* C7: the loop over [2, 10000) has ended with its 1229 primes. *)
C7_Witness == hc_pc = "fib" /\ Len(primes) = 1229 /\ primes[1229] = 9973

(* C8: fibonacci(i) is F(i) for every i the loop has reached; fibonacci(10)*)
(* is 55; when the loop has ended fibResults holds F(0) .. F(34).          *)
C8_FibonacciValues ==
    /\ hc_pc = "fib" => Len(fibResults) = hc_j
    /\ \A k \in 1..Len(fibResults) : fibResults[k] = F(k - 1)
    /\ Len(fibResults) > 10 => fibResults[11] = 55
    /\ hc_pc = "return" => Len(fibResults) = FibLimit

(* C8: the loop over [0, 35) has ended. *)
C8_Witness ==
    /\ hc_pc = "return"
    /\ Len(fibResults) = FibLimit
    /\ fibResults[11] = 55
    /\ fibResults[FibLimit] = 5702887

(* C9: when the orchestrator has run to its end, the 16 ms and the 1000 ms *)
(* intervals are the two timers registered; no step removes a timer; and   *)
(* from then on both timers tick until the bounds of the model are reached.*)
C9_TimersNeverStop ==
    /\ [](rt = NumRoutines + 1 => timers = << AnimTimer, LeakTimer >>)
    /\ [][IsPrefix(timers, timers')]_vars
    /\ (rt = NumRoutines + 1) ~>
          (animationCounter = MaxAnimTicks /\ Len(memoryLeaks) = MaxLeakTicks)

(* C9: both timers have ticked up to the bounds after a complete run. *)
C9_Witness ==
    /\ rt = NumRoutines + 1
    /\ Len(timers) = 2
    /\ animationCounter = MaxAnimTicks
    /\ Len(memoryLeaks) = MaxLeakTicks

(* C10: while a top-level call holds the thread no timer callback has run: *)
(* animationCounter is 0 and window.memoryLeaks is unset; a tick has       *)
(* happened only once the orchestrator's call has ended.                   *)
C10_NoTickWhileRunning ==
    /\ Running =>
          /\ animationCounter = 0
          /\ leakTicks = 0
          /\ ~memoryLeaksDefined /\ memoryLeaks = << >>
    /\ (animationCounter > 0 \/ leakTicks > 0) =>
          /\ phase = "idle"
          /\ rt = NumRoutines + 1 \/ uncaught # 0

(* C10: both timers are registered and a blocking request holds the        *)
(* thread.                                                                 *)
C10_Witness ==
    /\ pc = "xhr_1_wait"
    /\ timers = << AnimTimer, LeakTimer >>
    /\ animationCounter = 0 /\ ~memoryLeaksDefined

===========================================================================
